---------------------------- MODULE Spec2Model ----------------------------
(***************************************************************************)
(* A model of the MyBlog post workflow: the posts, tags and post_tags      *)
(* tables, the upload folder, and the request handlers of                  *)
(* app/blog/routes.py acting on them.  Strings are sequences of            *)
(* one-character strings, so that lower(), strip(), split(), rsplit() and  *)
(* slugify() are computed character by character.                          *)
(***************************************************************************)
EXTENDS Integers, Sequences, FiniteSets, TLC

VARIABLES
    posts,      \* posts table: id -> row
    tags,       \* tags table: id -> row
    post_tags,  \* association table: set of <<post_id, tag_id>>
    files,      \* names of the files in UPLOAD_FOLDER
    uuids,      \* number of uuid4() values drawn so far
    now,        \* datetime.utcnow()
    reqs,       \* view_post requests in flight: request -> session state
    resp,       \* HTTP status of the request that completed last (0: none yet)
    ret,        \* the last direct call of a helper: its name, argument and value
    settings,   \* site_settings table: key -> value
    creates     \* create_post requests in flight: request -> session state

vars == <<posts, tags, post_tags, files, uuids, now, reqs, resp, ret, settings, creates>>

-----------------------------------------------------------------------------
(* Strings *)

NULL == <<>>

Some(v) == <<v>>

UpperLetters ==
    <<"A", "B", "C", "D", "E", "F", "G", "H", "I", "J", "K", "L", "M",
      "N", "O", "P", "Q", "R", "S", "T", "U", "V", "W", "X", "Y", "Z">>

LowerLetters ==
    <<"a", "b", "c", "d", "e", "f", "g", "h", "i", "j", "k", "l", "m",
      "n", "o", "p", "q", "r", "s", "t", "u", "v", "w", "x", "y", "z">>

Digits == <<"0", "1", "2", "3", "4", "5", "6", "7", "8", "9">>

Range(s) == {s[i] : i \in DOMAIN s}

\* str.lower() on one character
LowerChar(c) ==
    IF \E i \in DOMAIN UpperLetters : UpperLetters[i] = c
    THEN LowerLetters[CHOOSE i \in DOMAIN UpperLetters : UpperLetters[i] = c]
    ELSE c

\* str.lower()
Lower(s) == [i \in DOMAIN s |-> LowerChar(s[i])]

IsSpace(c) == c = " "

RECURSIVE LStrip(_)
LStrip(s) ==
    IF s # <<>> /\ IsSpace(Head(s)) THEN LStrip(Tail(s)) ELSE s

RECURSIVE RStrip(_)
RStrip(s) ==
    IF s # <<>> /\ IsSpace(s[Len(s)]) THEN RStrip(SubSeq(s, 1, Len(s) - 1)) ELSE s

\* str.strip()
Strip(s) == RStrip(LStrip(s))

\* str.split(sep): every piece between separators, empty ones included
RECURSIVE SplitFrom(_, _, _)
SplitFrom(s, sep, piece) ==
    IF s = <<>> THEN <<piece>>
    ELSE IF Head(s) = sep THEN <<piece>> \o SplitFrom(Tail(s), sep, <<>>)
    ELSE SplitFrom(Tail(s), sep, Append(piece, Head(s)))

Split(s, sep) == SplitFrom(s, sep, <<>>)

\* index of the last occurrence of c in s, 0 when there is none
LastIndexOf(s, c) ==
    IF \E i \in DOMAIN s : s[i] = c
    THEN CHOOSE i \in DOMAIN s : s[i] = c /\ \A j \in DOMAIN s : s[j] = c => j <= i
    ELSE 0

\* s.rsplit('.', 1)[1], for an s that holds a '.'
RSplitExt(s) == SubSeq(s, LastIndexOf(s, ".") + 1, Len(s))

\* str(n) of a natural number
RECURSIVE Str(_)
Str(n) ==
    IF n < 10 THEN <<Digits[n + 1]>> ELSE Str(n \div 10) \o <<Digits[(n % 10) + 1]>>

IsAlnum(c) == c \in Range(LowerLetters) \cup Range(UpperLetters) \cup Range(Digits)

RECURSIVE SquashDashes(_)
SquashDashes(s) ==
    IF Len(s) < 2 THEN s
    ELSE IF s[1] = "-" /\ s[2] = "-" THEN SquashDashes(Tail(s))
    ELSE <<Head(s)>> \o SquashDashes(Tail(s))

RECURSIVE StripDashes(_)
StripDashes(s) ==
    IF s # <<>> /\ Head(s) = "-" THEN StripDashes(Tail(s))
    ELSE IF s # <<>> /\ s[Len(s)] = "-" THEN StripDashes(SubSeq(s, 1, Len(s) - 1))
    ELSE s

\* slugify(text) of python-slugify with its defaults, on ASCII text without
\* quotes: lowercase, every character outside [-a-z0-9] becomes '-', runs of
\* '-' collapse to one, leading and trailing '-' are dropped.
slugify(text) ==
    LET low == Lower(text)
        dashed == [i \in DOMAIN low |-> IF IsAlnum(low[i]) \/ low[i] = "-" THEN low[i] ELSE "-"]
    IN StripDashes(SquashDashes(dashed))

-----------------------------------------------------------------------------
(* Small helpers on tables *)

Max(S) == CHOOSE x \in S : \A y \in S : y <= x

\* the id an INSERT gives a new row (SQLite rowid: highest id in use, plus one)
NextId(table) == IF DOMAIN table = {} THEN 1 ELSE Max(DOMAIN table) + 1

Insert(table, id, row) == [i \in DOMAIN table \cup {id} |-> IF i = id THEN row ELSE table[i]]

Remove(table, id) == [i \in DOMAIN table \ {id} |-> table[i]]


-----------------------------------------------------------------------------
(* Slug Assigner *)

\* a variant whose first candidate skips a counter value
RECURSIVE SlugLoopSkip(_, _, _, _)
SlugLoopSkip(base_slug, slug, counter, taken) ==
    IF slug \in taken
    THEN SlugLoopSkip(base_slug, base_slug \o <<"-">> \o Str(counter + 1), counter + 1, taken)
    ELSE slug

\* the while loop of Post.generate_slug, entered with slug = base_slug, counter = 1
RECURSIVE SlugLoop(_, _, _, _)
SlugLoop(base_slug, slug, counter, taken) ==
    IF slug \in taken
    THEN SlugLoop(base_slug, base_slug \o <<"-">> \o Str(counter), counter + 1, taken)
    ELSE slug

\* Post.query.filter_by(slug=slug).first() is not None, for every slug at once
PostSlugs(tbl) == {tbl[i].slug : i \in DOMAIN tbl}

\* a variant without the uniqueness loop
generate_slug_unchecked(title, tbl) == slugify(title)

\* Post.generate_slug: the slug given to a post with this title
generate_slug(title, tbl) ==
    LET base_slug == slugify(title)
    IN SlugLoop(base_slug, base_slug, 1, PostSlugs(tbl))

-----------------------------------------------------------------------------
(* Tags *)

\* a variant that looks the name up, and stores it, as it was given
get_or_create_raw(tbl, name) ==
    LET found == {i \in DOMAIN tbl : tbl[i].name = name}
        id == NextId(tbl)
        row == [name |-> name, slug |-> slugify(name)]
    IN IF found # {}
       THEN [tags |-> tbl, tag |-> CHOOSE i \in found : TRUE, ok |-> TRUE]
       ELSE IF \E i \in DOMAIN tbl : tbl[i].slug = row.slug
       THEN [tags |-> tbl, tag |-> 0, ok |-> FALSE]
       ELSE [tags |-> Insert(tbl, id, row), tag |-> id, ok |-> TRUE]

\* Tag.get_or_create(name) against the tags table tbl, with the INSERT of
\* the new row (the session flushes it before its next query and at commit).
\* ok is FALSE when that INSERT violates the unique constraint on tags.slug.
get_or_create(tbl, name) ==
    LET key == Strip(Lower(name))
        found == {i \in DOMAIN tbl : tbl[i].name = key}
        id == NextId(tbl)
        row == [name |-> key, slug |-> slugify(name)]
    IN IF found # {}
       THEN [tags |-> tbl, tag |-> CHOOSE i \in found : TRUE, ok |-> TRUE]
       ELSE IF \E i \in DOMAIN tbl : tbl[i].slug = row.slug
       THEN [tags |-> tbl, tag |-> 0, ok |-> FALSE]
       ELSE [tags |-> Insert(tbl, id, row), tag |-> id, ok |-> TRUE]

\* [t.strip() for t in form.tags.data.split(',') if t.strip()]
TagNames(data) ==
    LET pieces == Split(data, ",")
        kept == SelectSeq(pieces, LAMBDA t : Strip(t) # <<>>)
    IN [i \in DOMAIN kept |-> Strip(kept[i])]

\* for tag_name in tag_names: post.tags.append(Tag.get_or_create(tag_name))
RECURSIVE AddTags(_, _)
AddTags(names, acc) ==
    IF names = <<>> \/ ~acc.ok THEN acc
    ELSE LET r == get_or_create(acc.tags, Head(names))
         IN AddTags(Tail(names),
                    [tags |-> r.tags, list |-> Append(acc.list, r.tag), ok |-> r.ok])

\* the tags of a post, from the association table
TagsOf(pt, id) == {t \in {x[2] : x \in pt} : <<id, t>> \in pt}

\* The flush of post.tags: one INSERT into post_tags per element of the
\* collection that was appended since the last flush.  The same tag appended
\* twice between two flushes gives two equal rows, which the primary key
\* (post_id, tag_id) rejects.  In edit_post the post is in the session, every
\* query of get_or_create flushes the append before it, and no two appends
\* share a flush.  In create_post the post enters the session at
\* db.session.add(post), after the loop, unless the backref cascade of
\* SQLAlchemy before 2.0 put it there at its first append (backref_cascade).
AssocInsertFails(original, list) ==
    \E i, j \in DOMAIN list :
        i < j /\ list[i] = list[j] /\ list[i] \notin original

-----------------------------------------------------------------------------
(* Upload Manager *)

\* Config.ALLOWED_EXTENSIONS
ALLOWED_EXTENSIONS ==
    { <<"p", "n", "g">>, <<"j", "p", "g">>, <<"j", "p", "e", "g">>,
      <<"g", "i", "f">>, <<"w", "e", "b", "p">> }

\* a variant that compares the extension as the client wrote it
allowed_file_cased(filename) ==
    /\ "." \in Range(filename)
    /\ RSplitExt(filename) \in ALLOWED_EXTENSIONS

allowed_file(filename) ==
    /\ "." \in Range(filename)
    /\ Lower(RSplitExt(filename)) \in ALLOWED_EXTENSIONS

\* uuid.uuid4().hex of the n-th draw: distinct draws give distinct names
UuidHex(n) == Str(n)

\* save_image(file) with n uuids drawn and the folder holding fs; file is
\* the client's filename, NULL for no file (a FileStorage is falsy when its
\* filename is empty)
save_image(file, fs, n) ==
    IF file # NULL /\ allowed_file(file)
    THEN LET ext == Lower(RSplitExt(file))
             filename == UuidHex(n + 1) \o <<".">> \o ext
         IN [name |-> filename, files |-> fs \cup {filename}, uuids |-> n + 1]
    ELSE [name |-> NULL, files |-> fs, uuids |-> n]

EndsWith(s, suffix) ==
    /\ Len(suffix) <= Len(s)
    /\ SubSeq(s, Len(s) - Len(suffix) + 1, Len(s)) = suffix

\* FileAllowed(['jpg', 'jpeg', 'png', 'gif', 'webp']) of PostForm.cover_image
FileAllowed(file) ==
    file = NULL \/ \E x \in ALLOWED_EXTENSIONS : EndsWith(Lower(file), <<".">> \o x)

\* PostForm.validate_on_submit(): DataRequired and Length(min=1, max=200) on
\* the title, FileAllowed on the cover image
PostFormValid(title, file) ==
    /\ Strip(title) # <<>>
    /\ Len(title) >= 1 /\ Len(title) <= 200
    /\ FileAllowed(file)

-----------------------------------------------------------------------------
(* State *)

Idle == [pc |-> "idle", post |-> 0, views |-> 0]

NoCall == [call |-> "none", arg |-> NULL, value |-> NULL]

\* a create_post request that is not in flight
NoCreate == [pc |-> "idle", row |-> NULL]

\* The state after create_app(): empty tables, an empty upload folder.  rs
\* is the set of view requests that may be in flight together.
Init(rs) ==
    /\ posts = <<>>
    /\ tags = <<>>
    /\ post_tags = {}
    /\ files = {}
    /\ uuids = 0
    /\ now = 0
    /\ reqs = [r \in rs |-> Idle]
    /\ resp = 0
    /\ ret = NoCall
    /\ settings = <<>>
    /\ creates = [r \in rs |-> NoCreate]

\* a response that leaves everything as it was
Respond(status) ==
    /\ resp' = status
    /\ UNCHANGED <<posts, tags, post_tags, files, uuids, now, reqs, ret, settings, creates>>

-----------------------------------------------------------------------------
(* Admin handlers.  u is the session's user: "anon" (not logged in), "user" *)
(* (logged in, is_admin false) or "admin".                                  *)

\* a variant that leaves the published date to a later edit or toggle
CreatePublishedAtLater(is_published, t) == NULL

\* published_at after create_post's "if form.is_published.data"
CreatePublishedAt(is_published, t) == IF is_published THEN Some(t) ELSE NULL

create_post(u, title, data, file, is_published, backref_cascade) ==
    IF u = "anon" THEN Respond(302)
    ELSE IF u # "admin" THEN Respond(403)
    ELSE IF ~PostFormValid(title, file) THEN Respond(200)
    ELSE
        LET slug == generate_slug(title, posts)
            img == save_image(file, files, uuids)
            tg == AddTags(TagNames(data), [tags |-> tags, list |-> <<>>, ok |-> TRUE])
            id == NextId(posts)
            row == [title |-> title,
                    slug |-> slug,
                    is_published |-> is_published,
                    published_at |-> CreatePublishedAt(is_published, now),
                    views |-> 0,
                    cover_image |-> img.name]
        IN /\ files' = img.files
           /\ uuids' = img.uuids
           /\ UNCHANGED <<now, reqs, ret, settings, creates>>
           /\ IF tg.ok /\ (backref_cascade \/ ~AssocInsertFails({}, tg.list))
              THEN /\ posts' = Insert(posts, id, row)
                   /\ tags' = tg.tags
                   /\ post_tags' = post_tags \cup {<<id, t>> : t \in Range(tg.list)}
                   /\ resp' = 302
              ELSE /\ resp' = 500
                   /\ UNCHANGED <<posts, tags, post_tags>>

\* create_post of a request r that runs beside other requests, in two steps.
\* First step, up to the cover image: the form is validated, generate_slug
\* reads the posts table and picks the candidate slug, save_image stores the
\* file.
create_post_check(r, u, title, data, file, is_published) ==
    /\ creates[r].pc = "idle"
    /\ IF u = "anon" THEN Respond(302)
       ELSE IF u # "admin" THEN Respond(403)
       ELSE IF ~PostFormValid(title, file) THEN Respond(200)
       ELSE
           LET img == save_image(file, files, uuids)
               row == [title |-> title,
                       slug |-> generate_slug(title, posts),
                       is_published |-> is_published,
                       cover_image |-> img.name,
                       data |-> data]
           IN /\ creates' = [creates EXCEPT ![r] = [pc |-> "slugged", row |-> Some(row)]]
              /\ files' = img.files
              /\ uuids' = img.uuids
              /\ UNCHANGED <<posts, tags, post_tags, now, reqs, resp, ret, settings>>

\* Second step, from the tags to db.session.commit(): the INSERT into posts
\* violates the unique constraint on posts.slug when another request took
\* the candidate slug since the first step; the IntegrityError is not
\* caught, the session is rolled back and the request ends 500.
create_post_commit(r, backref_cascade) ==
    /\ creates[r].pc = "slugged"
    /\ LET c == creates[r].row[1]
           tg == AddTags(TagNames(c.data), [tags |-> tags, list |-> <<>>, ok |-> TRUE])
           id == NextId(posts)
           row == [title |-> c.title,
                   slug |-> c.slug,
                   is_published |-> c.is_published,
                   published_at |-> CreatePublishedAt(c.is_published, now),
                   views |-> 0,
                   cover_image |-> c.cover_image]
       IN /\ creates' = [creates EXCEPT ![r] = NoCreate]
          /\ UNCHANGED <<files, uuids, now, reqs, ret, settings>>
          /\ IF /\ tg.ok
                /\ backref_cascade \/ ~AssocInsertFails({}, tg.list)
                /\ c.slug \notin PostSlugs(posts)
             THEN /\ posts' = Insert(posts, id, row)
                  /\ tags' = tg.tags
                  /\ post_tags' = post_tags \cup {<<id, t>> : t \in Range(tg.list)}
                  /\ resp' = 302
             ELSE /\ resp' = 500
                  /\ UNCHANGED <<posts, tags, post_tags>>

\* a variant that stamps published_at on every edit that asks to publish
EditPublishedAtAlways(post, is_published, t) ==
    IF is_published THEN Some(t) ELSE post.published_at

\* published_at after edit_post's "if not was_published and form.is_published.data"
EditPublishedAt(post, is_published, t) ==
    IF ~post.is_published /\ is_published THEN Some(t) ELSE post.published_at

\* the upload folder after edit_post's cover image block
EditFiles(post, img) ==
    IF img.name # NULL /\ post.cover_image # NULL
    THEN img.files \ {post.cover_image}
    ELSE img.files

\* a variant that assigns the slug again from the new title
EditedRowReslug(post, title, is_published, filename, t) ==
    [post EXCEPT
       !.title = title,
       !.slug = generate_slug(title, posts),
       !.is_published = is_published,
       !.published_at = EditPublishedAt(post, is_published, t),
       !.cover_image = IF filename # NULL THEN filename ELSE @]

\* the row after edit_post's assignments: title, publish state and cover image
EditedRow(post, title, is_published, filename, t) ==
    [post EXCEPT
       !.title = title,
       !.is_published = is_published,
       !.published_at = EditPublishedAt(post, is_published, t),
       !.cover_image = IF filename # NULL THEN filename ELSE @]

\* a variant that adds the submitted tags to those the post has
EditAssocMerge(pt, id, list) == pt \cup {<<id, t>> : t \in Range(list)}

\* post_tags after edit_post's post.tags.clear() and the appends of the loop
EditAssoc(pt, id, list) ==
    {x \in pt : x[1] # id} \cup {<<id, t>> : t \in Range(list)}

edit_post(u, id, title, data, file, is_published) ==
    IF u = "anon" THEN Respond(302)
    ELSE IF u # "admin" THEN Respond(403)
    ELSE IF id \notin DOMAIN posts THEN Respond(404)
    ELSE IF ~PostFormValid(title, file) THEN Respond(200)
    ELSE
        LET post == posts[id]
            img == save_image(file, files, uuids)
            tg == AddTags(TagNames(data), [tags |-> tags, list |-> <<>>, ok |-> TRUE])
            row == EditedRow(post, title, is_published, img.name, now)
        IN /\ files' = EditFiles(post, img)
           /\ uuids' = img.uuids
           /\ UNCHANGED <<now, reqs, ret, settings, creates>>
           /\ IF tg.ok
              THEN /\ posts' = [posts EXCEPT ![id] = row]
                   /\ tags' = tg.tags
                   /\ post_tags' = EditAssoc(post_tags, id, tg.list)
                   /\ resp' = 302
              ELSE /\ resp' = 500
                   /\ UNCHANGED <<posts, tags, post_tags>>

\* a variant that leaves the rows of the deleted post in post_tags
DeleteAssocKeep(pt, id) == pt

\* post_tags after db.session.delete(post): the rows of the post in the
\* secondary table of Post.tags go with it
DeleteAssoc(pt, id) == {x \in pt : x[1] # id}

\* a variant without the is_admin test
delete_post_open(u, id) ==
    IF u = "anon" THEN Respond(302)
    ELSE IF id \notin DOMAIN posts THEN Respond(404)
    ELSE
        /\ files' = IF posts[id].cover_image # NULL
                    THEN files \ {posts[id].cover_image}
                    ELSE files
        /\ posts' = Remove(posts, id)
        /\ post_tags' = DeleteAssoc(post_tags, id)
        /\ resp' = 302
        /\ UNCHANGED <<tags, uuids, now, reqs, ret, settings, creates>>

delete_post(u, id) ==
    IF u = "anon" THEN Respond(302)
    ELSE IF u # "admin" THEN Respond(403)
    ELSE IF id \notin DOMAIN posts THEN Respond(404)
    ELSE
        /\ files' = IF posts[id].cover_image # NULL
                    THEN files \ {posts[id].cover_image}
                    ELSE files
        /\ posts' = Remove(posts, id)
        /\ post_tags' = DeleteAssoc(post_tags, id)
        /\ resp' = 302
        /\ UNCHANGED <<tags, uuids, now, reqs, ret, settings, creates>>

\* published_at after toggle_publish's "if post.is_published and not post.published_at"
TogglePublishedAt(post, is_published, t) ==
    IF is_published /\ post.published_at = NULL THEN Some(t) ELSE post.published_at

toggle_publish(u, id) ==
    IF u = "anon" THEN Respond(302)
    ELSE IF u # "admin" THEN Respond(403)
    ELSE IF id \notin DOMAIN posts THEN Respond(404)
    ELSE
        LET post == posts[id]
            is_published == ~post.is_published
        IN /\ posts' = [posts EXCEPT
                          ![id].is_published = is_published,
                          ![id].published_at = TogglePublishedAt(post, is_published, now)]
           /\ resp' = 302
           /\ UNCHANGED <<tags, post_tags, files, uuids, now, reqs, ret, settings, creates>>

-----------------------------------------------------------------------------
(* About settings and post generation *)

\* the keys admin_about saves
SettingsKeys ==
    {"about_title", "about_intro", "about_content",
     "twitter_url", "github_url", "linkedin_url"}

\* SiteSettings.set(key, value): the row of the key is updated, or added
SiteSettings_set(tbl, key, value) ==
    [k \in DOMAIN tbl \cup {key} |-> IF k = key THEN value ELSE tbl[k]]

\* AboutForm.validate_on_submit(): Length(max=200) on the title,
\* Length(max=500) on the introduction
AboutFormValid(form) ==
    /\ Len(form["about_title"]) <= 200
    /\ Len(form["about_intro"]) <= 500

\* the six SiteSettings.set calls of admin_about, in their order; an empty
\* field is saved as ''
SavedSettings(tbl, form) ==
    LET s1 == SiteSettings_set(tbl, "about_title", form["about_title"])
        s2 == SiteSettings_set(s1, "about_intro", form["about_intro"])
        s3 == SiteSettings_set(s2, "about_content", form["about_content"])
        s4 == SiteSettings_set(s3, "twitter_url", form["twitter_url"])
        s5 == SiteSettings_set(s4, "github_url", form["github_url"])
    IN SiteSettings_set(s5, "linkedin_url", form["linkedin_url"])

admin_about(u, form) ==
    IF u = "anon" THEN Respond(302)
    ELSE IF u # "admin" THEN Respond(403)
    ELSE IF ~AboutFormValid(form) THEN Respond(200)
    ELSE
        /\ settings' = SavedSettings(settings, form)
        /\ resp' = 302
        /\ UNCHANGED <<posts, tags, post_tags, files, uuids, now, reqs, ret, creates>>

\* generate_post: the answer is JSON and nothing is stored.  generated is
\* FALSE when a call of the Gemini client raises.
generate_post(u, gemini_available, api_key, prompt, generated) ==
    IF u = "anon" THEN Respond(302)
    ELSE IF u # "admin" THEN Respond(403)
    ELSE IF ~gemini_available THEN Respond(500)
    ELSE IF api_key = NULL THEN Respond(400)
    ELSE IF prompt = NULL THEN Respond(400)
    ELSE IF generated THEN Respond(200)
    ELSE Respond(500)

-----------------------------------------------------------------------------
(* Public post view.  The request loads the row in its own session, then   *)
(* Post.increment_views writes the loaded value plus one and commits.      *)

\* Post.query.filter_by(slug=slug, is_published=True)
PublishedWithSlug(slug) ==
    {i \in DOMAIN posts : posts[i].slug = slug /\ posts[i].is_published}

RECURSIVE SumViews(_, _)
SumViews(tbl, ids) ==
    IF ids = {} THEN 0
    ELSE LET i == CHOOSE x \in ids : TRUE
         IN tbl[i].views + SumViews(tbl, ids \ {i})

\* db.session.query(db.func.sum(Post.views)).scalar() or 0
TotalViews(tbl) == SumViews(tbl, DOMAIN tbl)

\* view_post up to first_or_404(): the row is loaded, or the request ends 404
view_post(r, slug, maxViews) ==
    /\ reqs[r].pc = "idle"
    /\ IF PublishedWithSlug(slug) = {}
       THEN Respond(404)
       ELSE LET id == CHOOSE i \in PublishedWithSlug(slug) : TRUE
            IN /\ TotalViews(posts) < maxViews
               /\ reqs' = [reqs EXCEPT ![r] = [pc |-> "loaded", post |-> id,
                                                views |-> posts[id].views]]
               /\ UNCHANGED <<posts, tags, post_tags, files, uuids, now, resp, ret, settings, creates>>

\* self.views = (self.views or 0) + 1
IncrementedViews(loaded) == loaded + 1

\* Post.increment_views and the rest of view_post: UPDATE posts SET views = ?
\* WHERE id = ?, which fails (no row matched) when the post is gone
increment_views(r) ==
    /\ reqs[r].pc = "loaded"
    /\ reqs' = [reqs EXCEPT ![r] = Idle]
    /\ UNCHANGED <<tags, post_tags, files, uuids, now, ret, settings, creates>>
    /\ IF reqs[r].post \in DOMAIN posts
       THEN /\ posts' = [posts EXCEPT ![reqs[r].post].views =
                            IncrementedViews(reqs[r].views)]
            /\ resp' = 200
       ELSE /\ resp' = 500
            /\ UNCHANGED posts

-----------------------------------------------------------------------------
(* Direct calls of the helpers, each in a session of its own that commits. *)

\* Tag.get_or_create(name); db.session.commit().  The value is the id of the
\* tag, NULL when the commit fails.
call_get_or_create(name) ==
    LET r == get_or_create(tags, name)
    IN /\ tags' = r.tags
       /\ ret' = [call |-> "get_or_create", arg |-> name,
                  value |-> IF r.ok THEN Some(r.tag) ELSE NULL]
       /\ UNCHANGED <<posts, post_tags, files, uuids, now, reqs, resp, settings, creates>>

\* save_image(file).  The value is the stored name, NULL for None.
call_save_image(file) ==
    LET img == save_image(file, files, uuids)
    IN /\ files' = img.files
       /\ uuids' = img.uuids
       /\ ret' = [call |-> "save_image", arg |-> file, value |-> img.name]
       /\ UNCHANGED <<posts, tags, post_tags, now, reqs, resp, settings, creates>>

\* the wall clock advances
Tick(maxClock) ==
    /\ now < maxClock
    /\ now' = now + 1
    /\ UNCHANGED <<posts, tags, post_tags, files, uuids, reqs, resp, ret, settings, creates>>

-----------------------------------------------------------------------------
(* Specifications.  P gives the inputs the requests draw from and the      *)
(* bounds that keep the tables finite.                                      *)

Bounded(P) ==
    /\ \A i \in DOMAIN posts' : i <= P.maxPosts
    /\ Cardinality(DOMAIN tags') <= P.maxTags
    /\ uuids' <= P.maxUploads

Admin(P) ==
    \/ \E u \in P.users, title \in P.titles, data \in P.tagInputs, file \in P.uploads,
          is_published \in P.publish, backref_cascade \in P.cascades :
            create_post(u, title, data, file, is_published, backref_cascade) /\ Bounded(P)
    \/ \E u \in P.users, id \in DOMAIN posts, title \in P.titles, data \in P.tagInputs,
          file \in P.uploads, is_published \in P.publish :
            edit_post(u, id, title, data, file, is_published) /\ Bounded(P)
    \/ \E u \in P.users, id \in DOMAIN posts : delete_post(u, id)
    \/ \E u \in P.users, id \in DOMAIN posts : toggle_publish(u, id)

View(P) ==
    \/ \E r \in DOMAIN reqs, slug \in PostSlugs(posts) \cup P.slugs :
            view_post(r, slug, P.maxViews)
    \/ \E r \in DOMAIN reqs : increment_views(r)

Next(P) == Admin(P) \/ View(P)

(* Slugs: several titles with colliding base slugs, one view request. *)

SlugMaxPosts == 3

SlugMaxViews == 1

SlugTitles == { <<"a">>, <<"A">> }

SlugP ==
    [users |-> {"admin"}, titles |-> SlugTitles, tagInputs |-> {<<>>}, uploads |-> {NULL},
     publish |-> {TRUE}, cascades |-> {FALSE}, slugs |-> {<<"z">>}, maxPosts |-> SlugMaxPosts, maxViews |-> SlugMaxViews,
     maxTags |-> 0, maxUploads |-> 0]

SpecSlug == Init({1}) /\ [][Next(SlugP)]_vars

(* Publication: a clock and both publish inputs. *)

PubMaxPosts == 2

PubMaxViews == 1

PubMaxClock == 1

PubTitles == { <<"a">> }

PubP ==
    [users |-> {"admin"}, titles |-> PubTitles, tagInputs |-> {<<>>}, uploads |-> {NULL},
     publish |-> BOOLEAN, cascades |-> {FALSE}, slugs |-> {<<"z">>},
     maxPosts |-> PubMaxPosts, maxViews |-> PubMaxViews, maxTags |-> 0, maxUploads |-> 0]

SpecPublish == Init({1}) /\ [][Next(PubP) \/ Tick(PubMaxClock)]_vars

(* Editing: titles with different base slugs. *)

EditMaxPosts == 2

EditMaxViews == 1

EditTitles == { <<"a">>, <<"b">> }

EditP ==
    [users |-> {"admin"}, titles |-> EditTitles, tagInputs |-> {<<>>}, uploads |-> {NULL},
     publish |-> BOOLEAN, cascades |-> {FALSE}, slugs |-> {<<"z">>},
     maxPosts |-> EditMaxPosts, maxViews |-> EditMaxViews, maxTags |-> 0, maxUploads |-> 0]

SpecEdit == Init({1}) /\ [][Next(EditP)]_vars

(* Views: two view requests in flight together. *)

ViewsMaxPosts == 2

ViewsMaxViews == 2

ViewsTitles == { <<"a">> }

ViewsP ==
    [users |-> {"admin"}, titles |-> ViewsTitles, tagInputs |-> {<<>>}, uploads |-> {NULL},
     publish |-> {TRUE}, cascades |-> {FALSE}, slugs |-> {<<"z">>},
     maxPosts |-> ViewsMaxPosts, maxViews |-> ViewsMaxViews, maxTags |-> 0, maxUploads |-> 0]

SpecViews == Init({1, 2}) /\ [][Next(ViewsP)]_vars

(* Tags in the post workflow. *)

TagsMaxPosts == 2

TagsMaxTags == 2

TagsMaxViews == 1

TagsTitles == { <<"a">> }

TagsInputs ==
    { <<>>, <<"a">>, <<" ", "A", ",", "b">>, <<"a", ",", "A">> }

TagsP ==
    [users |-> {"admin"}, titles |-> TagsTitles, tagInputs |-> TagsInputs, uploads |-> {NULL},
     publish |-> {TRUE}, cascades |-> BOOLEAN, slugs |-> {<<"z">>},
     maxPosts |-> TagsMaxPosts, maxViews |-> TagsMaxViews, maxTags |-> TagsMaxTags,
     maxUploads |-> 0]

SpecTags == Init({1}) /\ [][Next(TagsP)]_vars

(* Direct calls of Tag.get_or_create. *)

CallMaxTags == 3

CallNames ==
    { <<"a">>, <<"A">>, <<" ", "a">>, <<" ", "A", " ">>, <<"b">>, <<"B", " ">>,
      <<"c">>, <<"c", "+">>, <<"a", " ", "b">>, <<"A", " ", "B">> }

SpecTagCalls ==
    /\ Init({1})
    /\ [][\E name \in CallNames :
            call_get_or_create(name) /\ Cardinality(DOMAIN tags') <= CallMaxTags]_vars

(* Direct calls of save_image. *)

UploadMax == 3

UploadInputs ==
    { NULL,
      <<"e", "v", "i", "l", ".", "e", "x", "e">>,
      <<"p", "h", "o", "t", "o", ".", "P", "N", "G">>,
      <<"a", ".", "j", "p", "g">>,
      <<"a", ".", "p", "n", "g", ".", "e", "x", "e">>,
      <<"a", ".", "e", "x", "e", ".", "G", "i", "f">>,
      <<"p", "n", "g">>,
      <<".", "w", "e", "b", "p">>,
      <<"a", ".">>,
      <<"a", ".", "J", "p", "e", "g">> }

SpecUpload ==
    /\ Init({1})
    /\ [][\E file \in UploadInputs : call_save_image(file) /\ uuids' <= UploadMax]_vars

(* Authorisation: an admin, a logged-in user who is no admin, a visitor. *)

AuthMaxPosts == 1

AuthMaxViews == 1

AuthMaxTags == 1

AuthMaxUploads == 1

AuthTitles == { <<"a">> }

AuthTagInputs == { <<"a">> }

AuthUploads == { NULL, <<"a", ".", "p", "n", "g">> }

AuthForms ==
    { [k \in SettingsKeys |-> IF k = "about_title" THEN <<"h", "i">> ELSE <<>>],
      [k \in SettingsKeys |-> <<>>] }

AuthP ==
    [users |-> {"anon", "user", "admin"}, titles |-> AuthTitles, tagInputs |-> AuthTagInputs,
     uploads |-> AuthUploads, publish |-> {TRUE}, cascades |-> {FALSE}, slugs |-> {<<"z">>},
     maxPosts |-> AuthMaxPosts, maxViews |-> AuthMaxViews, maxTags |-> AuthMaxTags,
     maxUploads |-> AuthMaxUploads]

NextAuth ==
    \/ Next(AuthP)
    \/ \E u \in AuthP.users, form \in AuthForms : admin_about(u, form)
    \/ \E u \in AuthP.users, gemini_available \in BOOLEAN, api_key \in {NULL, <<"k">>},
          prompt \in {NULL, <<"p">>}, generated \in BOOLEAN :
            generate_post(u, gemini_available, api_key, prompt, generated)

SpecAuth == Init({1}) /\ [][NextAuth]_vars

(* Create requests that overlap. *)

RaceMaxPosts == 2

RaceTitles == { <<"a">>, <<"A">> }

RaceP ==
    [users |-> {"admin"}, titles |-> RaceTitles, tagInputs |-> {<<>>}, uploads |-> {NULL},
     publish |-> {TRUE}, cascades |-> {FALSE}, slugs |-> {<<"z">>},
     maxPosts |-> RaceMaxPosts, maxViews |-> 0, maxTags |-> 0, maxUploads |-> 0]

NextRace ==
    \/ \E u \in RaceP.users, id \in DOMAIN posts : delete_post(u, id)
    \/ \E u \in RaceP.users, id \in DOMAIN posts : toggle_publish(u, id)
    \/ \E r \in DOMAIN creates, u \in RaceP.users, title \in RaceP.titles,
          data \in RaceP.tagInputs, file \in RaceP.uploads, is_published \in RaceP.publish :
            create_post_check(r, u, title, data, file, is_published) /\ Bounded(RaceP)
    \/ \E r \in DOMAIN creates, backref_cascade \in RaceP.cascades :
            create_post_commit(r, backref_cascade) /\ Bounded(RaceP)

SpecRace == Init({1, 2}) /\ [][NextRace]_vars

(* Editing the tags of a post. *)

RetagMaxPosts == 1

RetagMaxTags == 2

RetagMaxViews == 1

RetagTitles == { <<"a">>, <<"b">> }

RetagInputs == { <<>>, <<" ", "A", ",", "b">>, <<"a", ",", "A">> }

RetagP ==
    [users |-> {"admin"}, titles |-> RetagTitles, tagInputs |-> RetagInputs, uploads |-> {NULL},
     publish |-> {TRUE}, cascades |-> {FALSE}, slugs |-> {<<"z">>},
     maxPosts |-> RetagMaxPosts, maxViews |-> RetagMaxViews, maxTags |-> RetagMaxTags,
     maxUploads |-> 0]

SpecRetag == Init({1}) /\ [][Next(RetagP)]_vars

-----------------------------------------------------------------------------
(* Claims about slugs, under SpecSlug and SpecEdit *)

Dash(base, k) == base \o <<"-">> \o Str(k)

\* C1: no two existing posts have the same slug.
C1_UniqueSlugs ==
    \A i, j \in DOMAIN posts : i # j => posts[i].slug # posts[j].slug

\* three posts exist whose titles all have the base slug "a"
C1_Witness ==
    /\ Cardinality(DOMAIN posts) = 3
    /\ \A i \in DOMAIN posts : slugify(posts[i].title) = <<"a">>

\* C2: a step that creates a post gives it the base slug of its title when
\* no post had that slug, and otherwise base-k for the smallest k >= 1 such
\* that no post had the slug base-k (so base-1 when only the base was taken).
C2_SlugRule ==
    [][\A id \in DOMAIN posts' \ DOMAIN posts :
          LET base == slugify(posts'[id].title)
              taken == PostSlugs(posts)
              free == {k \in 1..(Cardinality(taken) + 1) : Dash(base, k) \notin taken}
          IN posts'[id].slug =
                IF base \notin taken THEN base
                ELSE Dash(base, CHOOSE k \in free : \A j \in free : k <= j)]_vars

\* two posts created with the same title hold the slugs s and s-1, and a
\* third post holds s-2
C2_Witness ==
    \E i, j, k \in DOMAIN posts :
        /\ posts[i].title = <<"A">> /\ posts[i].slug = <<"a">>
        /\ posts[j].title = <<"A">> /\ posts[j].slug = <<"a", "-", "1">>
        /\ posts[k].slug = <<"a", "-", "2">>

\* C3: no step changes the slug of a post that exists before and after it.
C3_SlugFrozen ==
    [][\A id \in DOMAIN posts \cap DOMAIN posts' :
          posts'[id].slug = posts[id].slug]_vars

\* a post was edited to a title with another base slug, and viewed, and
\* unpublished, and still has the slug of its first title
C3_Witness ==
    \E id \in DOMAIN posts :
        /\ posts[id].title = <<"b">>
        /\ posts[id].slug = <<"a">>
        /\ posts[id].views > 0
        /\ ~posts[id].is_published

-----------------------------------------------------------------------------
(* Claims about published_at, under SpecPublish *)

\* C4: published_at is stamped at the first transition of is_published from
\* false to true, and a published_at that is set never changes afterwards.
C4_PublishedAtSetOnce ==
    [][\A id \in DOMAIN posts \cap DOMAIN posts' :
          /\ (~posts[id].is_published /\ posts'[id].is_published
                /\ posts[id].published_at = NULL)
                => posts'[id].published_at = Some(now)
          /\ posts[id].published_at # NULL
                => posts'[id].published_at = posts[id].published_at]_vars

\* C5: an edit_post step leaves published_at as it was unless the post was
\* unpublished and the edit asks to publish, and then stamps it now; a
\* toggle_publish step leaves it as it was unless it publishes a post whose
\* published_at is unset, and then stamps it now.
C5_PublishedAtRule ==
    [][/\ \A id \in DOMAIN posts, title \in PubTitles, is_published \in BOOLEAN :
            edit_post("admin", id, title, <<>>, NULL, is_published) =>
                posts'[id].published_at =
                    IF ~posts[id].is_published /\ is_published
                    THEN Some(now) ELSE posts[id].published_at
       /\ \A id \in DOMAIN posts :
            toggle_publish("admin", id) =>
                posts'[id].published_at =
                    IF posts'[id].is_published /\ posts[id].published_at = NULL
                    THEN Some(now) ELSE posts[id].published_at]_vars

\* one post was published late (by an edit or a toggle of a draft), another
\* was published at its creation and unpublished since, keeping its stamp
C5_Witness ==
    \E i, j \in DOMAIN posts :
        /\ posts[i].is_published /\ posts[i].published_at = Some(1)
        /\ ~posts[j].is_published /\ posts[j].published_at = Some(0)

-----------------------------------------------------------------------------
(* Claims about the views counter, under SpecViews *)

\* C7: every view request that completes leaves the views counter of its
\* post one higher than it was just before (so N completed views add N,
\* however the requests interleave).
C7_ViewAddsOne ==
    [][\A r \in DOMAIN reqs :
          (increment_views(r) /\ resp' = 200) =>
              posts'[reqs[r].post].views = posts[reqs[r].post].views + 1]_vars

\* C8: no step lowers the views counter of a post.
C8_ViewsMonotonic ==
    [][\A id \in DOMAIN posts \cap DOMAIN posts' :
          posts'[id].views >= posts[id].views]_vars

-----------------------------------------------------------------------------
(* Claims about Tag.get_or_create, under SpecTagCalls *)

\* a name trimmed, then lowercased
Normal(name) == Lower(Strip(name))

\* C6: after any sequence of get_or_create calls the tags table holds at
\* most one row per lowercased, trimmed name and every stored name is in that
\* form; a call returns the row whose name is the normal form of its
\* argument, the one that was there when there was one, and changes no
\* other row, so two names with one normal form get the same tag.
C6_GetOrCreate ==
    [][/\ \A i, j \in DOMAIN tags' :
            Normal(tags'[i].name) = Normal(tags'[j].name) => i = j
       /\ \A i \in DOMAIN tags' : tags'[i].name = Normal(tags'[i].name)
       /\ \A i \in DOMAIN tags : i \in DOMAIN tags' /\ tags'[i] = tags[i]
       /\ \A name \in CallNames :
            (call_get_or_create(name) /\ ret'.value # NULL) =>
                LET id == ret'.value[1]
                IN /\ id \in DOMAIN tags'
                   /\ tags'[id].name = Normal(name)
                   /\ \A j \in DOMAIN tags :
                        tags[j].name = Normal(name) => j = id /\ tags' = tags
                   /\ \A other \in CallNames :
                        Normal(other) = Normal(name) =>
                            get_or_create(tags', other).tag = id]_vars

\* the tag "a" is the only row with that name, other tags exist, and the
\* last call, with " A ", returned it
C6_Witness ==
    /\ ret = [call |-> "get_or_create", arg |-> <<" ", "A", " ">>, value |-> Some(1)]
    /\ tags[1].name = <<"a">>
    /\ Cardinality(DOMAIN tags) = 3

-----------------------------------------------------------------------------
(* Claims about save_image, under SpecUpload *)

\* the part of a filename after its last '.'
ExtOf(f) ==
    CHOOSE e \in {SubSeq(f, i + 1, Len(f)) : i \in DOMAIN f} :
        /\ "." \notin Range(e)
        /\ f[Len(f) - Len(e)] = "."

Accepted(f) ==
    /\ f # NULL
    /\ "." \in Range(f)
    /\ Lower(ExtOf(f)) \in { <<"p", "n", "g">>, <<"j", "p", "g">>, <<"j", "p", "e", "g">>,
                             <<"g", "i", "f">>, <<"w", "e", "b", "p">> }

\* C9: save_image returns None and writes nothing for no file, a name
\* without extension or an extension outside {png, jpg, jpeg, gif, webp};
\* otherwise it writes exactly one new file and returns its name, which is
\* the uuid drawn, a '.', and the lowercased extension, not the client's name.
C9_SaveImage ==
    [][\A f \in UploadInputs :
          call_save_image(f) =>
              IF Accepted(f)
              THEN /\ ret'.value # NULL
                   /\ ret'.value \notin files
                   /\ files' = files \cup {ret'.value}
                   /\ ret'.value = Str(uuids') \o <<".">> \o Lower(ExtOf(f))
                   /\ ret'.value # f
              ELSE /\ ret'.value = NULL
                   /\ files' = files]_vars

\* evil.exe was refused after photo.PNG was stored as 1.png
C9_Witness ==
    /\ files = { <<"1", ".", "p", "n", "g">> }
    /\ ret = [call |-> "save_image",
              arg |-> <<"e", "v", "i", "l", ".", "e", "x", "e">>, value |-> NULL]

-----------------------------------------------------------------------------
(* Claims about tags in the post workflow, under SpecTags *)

\* C10: a delete_post step removes the post and every post_tags row of it
\* and leaves the other rows and the tags table as they were; no step at all
\* removes or changes a row of the tags table.
C10_DeleteKeepsTags ==
    [][/\ \A t \in DOMAIN tags : t \in DOMAIN tags' /\ tags'[t] = tags[t]
       /\ \A id \in DOMAIN posts :
            delete_post("admin", id) =>
                /\ id \notin DOMAIN posts'
                /\ post_tags' = {x \in post_tags : x[1] # id}
                /\ tags' = tags
       /\ \A x \in post_tags' : x[1] \in DOMAIN posts' /\ x[2] \in DOMAIN tags']_vars

\* every post is deleted and two tags remain, referenced by no post
C10_Witness ==
    /\ DOMAIN posts = {}
    /\ post_tags = {}
    /\ Cardinality(DOMAIN tags) = 2

-----------------------------------------------------------------------------
(* Claims about authorisation, under SpecAuth *)

\* C11: a request of a logged-in user who is not an admin for create, edit,
\* delete, toggle-publish, the about settings or generate-post is answered
\* 403 and leaves posts, tags, post_tags, settings and the stored files as
\* they were; this for every post id, existing or not.
C11_NonAdminForbidden ==
    [][LET Refused == /\ resp' = 403
                      /\ UNCHANGED <<posts, tags, post_tags, settings, files>>
       IN /\ \A title \in AuthTitles, data \in AuthTagInputs, file \in AuthUploads,
                is_published \in BOOLEAN :
                /\ create_post("user", title, data, file, is_published, FALSE) => Refused
                /\ \A id \in 1..(AuthMaxPosts + 1) :
                      edit_post("user", id, title, data, file, is_published) => Refused
          /\ \A id \in 1..(AuthMaxPosts + 1) :
                /\ delete_post("user", id) => Refused
                /\ toggle_publish("user", id) => Refused
          /\ \A form \in AuthForms : admin_about("user", form) => Refused
          /\ \A prompt \in {NULL, <<"p">>} :
                generate_post("user", TRUE, <<"k">>, prompt, TRUE) => Refused]_vars

\* the last request was refused while a post with a tag and a cover image
\* and saved about settings exist
C11_Witness ==
    /\ resp = 403
    /\ \E id \in DOMAIN posts :
          /\ posts[id].cover_image \in files
          /\ \E t \in DOMAIN tags : <<id, t>> \in post_tags
    /\ DOMAIN settings = SettingsKeys

-----------------------------------------------------------------------------
(* Claims about the public view, under SpecViews *)

\* C12: a view request for a slug that no post has, or that only an
\* unpublished post has, is answered 404 and changes no row of posts; a view
\* request for the slug of a published post loads that post, and when it
\* completes, that post's views is one higher than it was just before and
\* every other post is as it was.
C12_ViewOr404 ==
    [][\A r \in DOMAIN reqs :
          /\ \A slug \in PostSlugs(posts) \cup {<<"z">>} :
                view_post(r, slug, ViewsMaxViews) =>
                    IF \E i \in DOMAIN posts : posts[i].slug = slug /\ posts[i].is_published
                    THEN /\ reqs'[r].pc = "loaded"
                         /\ posts[reqs'[r].post].slug = slug
                         /\ posts' = posts
                    ELSE /\ resp' = 404
                         /\ reqs' = reqs
                         /\ posts' = posts
          /\ (increment_views(r) /\ reqs[r].post \in DOMAIN posts) =>
                /\ resp' = 200
                /\ posts' = [posts EXCEPT ![reqs[r].post].views = @ + 1]]_vars

-----------------------------------------------------------------------------
(* Claims about overlapping create requests, under SpecRace *)

\* C13: when a create request reaches its insert with a candidate slug that
\* another request took since the check, the collision is retried with the
\* next counter: the request completes successfully and its post is stored
\* with a slug that no other post has.
C13_CollisionRetried ==
    [][\A r \in DOMAIN creates, backref_cascade \in BOOLEAN :
          (/\ create_post_commit(r, backref_cascade)
           /\ creates[r].row[1].slug \in PostSlugs(posts)) =>
              /\ resp' = 302
              /\ \E id \in DOMAIN posts' \ DOMAIN posts :
                    /\ posts'[id].title = creates[r].row[1].title
                    /\ posts'[id].slug \notin PostSlugs(posts)]_vars

-----------------------------------------------------------------------------
(* Claims about the tags of an edited post, under SpecRetag *)

\* the names a comma-separated tag list asks for
Wanted(data) ==
    LET entries == Split(data, ",")
    IN {Normal(entries[i]) : i \in {j \in DOMAIN entries : Strip(entries[j]) # <<>>}}

\* C14: after a successful edit_post the tags associated with the post are
\* exactly the tags named by the lowercased, trimmed, non-empty entries of
\* the submitted list (none for an empty list), whatever tags the post had,
\* each associated once, and the tags of the other posts are as they were.
C14_EditReplacesTags ==
    [][\A id \in DOMAIN posts, title \in RetagTitles, data \in RetagInputs,
          is_published \in BOOLEAN :
          (/\ resp' = 302
           /\ id \in DOMAIN posts'
           /\ posts'[id].title = title
           /\ posts'[id].is_published = is_published
           /\ edit_post("admin", id, title, data, NULL, is_published)) =>
              LET mine == {x \in post_tags' : x[1] = id}
              IN /\ \A x \in mine : x[2] \in DOMAIN tags'
                 /\ {tags'[x[2]].name : x \in mine} = Wanted(data)
                 /\ Cardinality(mine) = Cardinality(Wanted(data))
                 /\ {x \in post_tags' : x[1] # id} = {x \in post_tags : x[1] # id}]_vars

\* an edited post (it has the title "b" and the slug of "a") is associated
\* with the tag "a" alone while the tag "b" exists
C14_Witness ==
    \E id \in DOMAIN posts :
        /\ posts[id].title = <<"b">> /\ posts[id].slug = <<"a">>
        /\ {tags[x[2]].name : x \in {y \in post_tags : y[1] = id}} = { <<"a">> }
        /\ \E t \in DOMAIN tags : tags[t].name = <<"b">>

-----------------------------------------------------------------------------
(* Claims about tag slugs, under SpecTagCalls *)

\* C15: no two tags have the same slug, and a get_or_create call for a name
\* whose normal form no tag has succeeds: it adds a tag whose slug differs
\* from the slug of every tag there was.
C15_TagSlugFresh ==
    [][/\ \A i, j \in DOMAIN tags' : tags'[i].slug = tags'[j].slug => i = j
       /\ \A name \in CallNames :
            (/\ call_get_or_create(name)
             /\ \A i \in DOMAIN tags : tags[i].name # Normal(name)) =>
                /\ ret'.value # NULL
                /\ \E id \in DOMAIN tags' \ DOMAIN tags :
                      /\ ret'.value = Some(id)
                      /\ \A i \in DOMAIN tags : tags[i].slug # tags'[id].slug]_vars

-----------------------------------------------------------------------------
(* Claims about published posts, under SpecPublish *)

\* C16: after every step each published post has published_at set; a post
\* created as a draft has published_at unset, and it stays unset over every
\* step that leaves the post a draft.
C16_PublishedHasDate ==
    [][/\ \A id \in DOMAIN posts' :
            posts'[id].is_published => posts'[id].published_at # NULL
       /\ \A id \in DOMAIN posts' \ DOMAIN posts :
            ~posts'[id].is_published => posts'[id].published_at = NULL
       /\ \A id \in DOMAIN posts \cap DOMAIN posts' :
            (/\ ~posts[id].is_published /\ ~posts'[id].is_published
             /\ posts[id].published_at = NULL) => posts'[id].published_at = NULL]_vars

\* a draft that was never published (its published_at is unset) stands
\* beside a post that was published when the clock read 1
C16_Witness ==
    \E i, j \in DOMAIN posts :
        /\ ~posts[i].is_published /\ posts[i].published_at = NULL
        /\ posts[j].is_published /\ posts[j].published_at = Some(1)

=============================================================================
